---------------------------- MODULE Spec2Model ----------------------------
(***************************************************************************)
(* A model of learn-tokio-frame: the calculator frame codec (frame.rs),    *)
(* the buffered Connection (connection.rs) and the Listener / Handler      *)
(* admission control (server.rs).                                          *)
(*                                                                         *)
(* Bytes are the integers 0..255.  Cursor positions are 0-based as in the  *)
(* source; a TLA+ sequence is 1-based, so byte i of a slice s is s[i + 1]. *)
(***************************************************************************)
EXTENDS Integers, Sequences, FiniteSets, TLC

(***************************************************************************)
(* Bounds.  The source's u64 is 64 bits wide and its pool holds 250        *)
(* permits; TLC's integers are 32 bits wide and 250 tasks are beyond       *)
(* enumeration, so the same code is run at a reduced word width and pool   *)
(* capacity.  Nothing in the code depends on either value except through   *)
(* U64_MAX and MAX_CONNECTIONS.                                            *)
(***************************************************************************)
U64Bits == 4

MAX_CONNECTIONS == 2

U64_MAX == 2 ^ U64Bits - 1

U64 == 0 .. U64_MAX

\* Connections the environment offers over the Listener's lifetime: one more
\* than the pool holds, so that the pool is exhausted with one still waiting.
MaxAccepts == MAX_CONNECTIONS + 1

(***************************************************************************)
(* Byte literals of the wire format.                                       *)
(***************************************************************************)
PLUS == 43

MINUS == 45

STAR == 42

EQUALS == 61

COLON == 58

CR == 13

LF == 10

ZERO == 48

NINE == 57

\* Bytes that are neither digits nor markers: 'a', NUL and 0xff.
Other == [letter |-> 97, nul |-> 0, high |-> 255]

LETTER_A == Other.letter

BACKOFF_LIMIT == 64

(***************************************************************************)
(* Values: Frame, Option and Result.                                       *)
(***************************************************************************)
Addition(x, y) == [type |-> "Addition", x |-> x, y |-> y]

Subtraction(x, y) == [type |-> "Subtraction", x |-> x, y |-> y]

Multiplication(x, y) == [type |-> "Multiplication", x |-> x, y |-> y]

OpResult(r) == [type |-> "OpResult", r |-> r]

\* Option<u64>
None == [some |-> FALSE, v |-> 0]

Some(n) == [some |-> TRUE, v |-> n]

\* frame::Error
Incomplete == "Incomplete"

ErrMessage == "ErrMessage"

\* What a cursor function leaves behind: how it ended ("Ok", "Err", "Panic"),
\* its value when Ok, its error when Err, and the cursor position.
Ok(v, p) == [tag |-> "Ok", val |-> v, err |-> "", pos |-> p]

Err(e, p) == [tag |-> "Err", val |-> 0, err |-> e, pos |-> p]

Panic(p) == [tag |-> "Panic", val |-> 0, err |-> "", pos |-> p]

Min(S) == CHOOSE m \in S : \A n \in S : m <= n

\* The `?` operator: the rest of the function runs on the Ok value, anything
\* else is returned as it is.
Try(r, Rest(_)) == IF r.tag = "Ok" THEN Rest(r) ELSE r

\* Option::and_then
and_then(o, F(_)) == IF o.some THEN F(o.v) ELSE None

(***************************************************************************)
(* The atoi crate, as called at frame.rs 118 and 142: the leading run of   *)
(* ASCII digits is accumulated with checked multiplication and addition;   *)
(* the first byte that is no digit ends the number and the bytes after it  *)
(* are ignored.  None when no digit was read or the value overflows.       *)
(***************************************************************************)
ascii_to_digit(b) == IF b >= ZERO /\ b <= NINE THEN Some(b - ZERO) ELSE None

checked_mul(a, b) == IF a * b > U64_MAX THEN None ELSE Some(a * b)

\* Mutant: the addition wraps.
wrapping_add(a, b) == Some((a + b) % (U64_MAX + 1))

checked_add(a, b) == IF a + b > U64_MAX THEN None ELSE Some(a + b)

Accumulate(number, digit) ==
    and_then(and_then(number, LAMBDA n : checked_mul(n, 10)),
             LAMBDA n : checked_add(n, digit))

RECURSIVE from_radix_10_checked(_, _, _)
from_radix_10_checked(text, index, number) ==
    IF index >= Len(text) \/ ~ascii_to_digit(text[index + 1]).some
    THEN [number |-> number, index |-> index]
    ELSE from_radix_10_checked(text, index + 1,
                               Accumulate(number, text[index + 1] - ZERO))

AtoiResult(r) == IF r.index = 0 \/ ~r.number.some THEN None ELSE r.number

atoi(text) == AtoiResult(from_radix_10_checked(text, 0, Some(0)))

(***************************************************************************)
(* frame.rs                                                                *)
(***************************************************************************)
get_u8(src, pos) ==
    IF pos >= Len(src) THEN Err(Incomplete, pos) ELSE Ok(src[pos + 1], pos + 1)

\* `for i in start..end`, returning at the first i the test holds at: the
\* first position in start..end-1 where the two bytes are CR LF, if any.
FirstOf(hits) == IF hits = {} THEN None ELSE Some(Min(hits))

FirstCrlf(src, start, end) ==
    FirstOf({i \in start .. (end - 1) : src[i + 1] = CR /\ src[i + 2] = LF})

FirstColon(src, start, end) ==
    FirstOf({i \in start .. (end - 1) : src[i + 1] = COLON})

\* The loop's outcome: Found(i) where it returned, the error after it.
Scan(hit, pos, Found(_), e) == IF hit.some THEN Found(hit.v) ELSE Err(e, pos)

\* atoi::<u64>(fbytes).map_or(Err(ErrMessage), |v| Ok(v))
map_or(o, p) == IF o.some THEN Ok(o.v, p) ELSE Err(ErrMessage, p)

\* `len() - 1` of an empty slice underflows: a panic where overflow is
\* checked, and an index out of bounds in the loop where it wraps.
get_line(src, pos) ==
    IF Len(src) = 0 THEN Panic(pos)
    ELSE Scan(FirstCrlf(src, pos, Len(src) - 1), pos,
              LAMBDA i : Ok(SubSeq(src, pos + 1, i), i + 2), Incomplete)

get_first_operand(src, pos) ==
    IF Len(src) = 0 THEN Panic(pos)
    ELSE Scan(FirstColon(src, pos, Len(src) - 1), pos,
              LAMBDA i : map_or(atoi(SubSeq(src, pos + 1, i)), i + 1), ErrMessage)

get_second_operand(src, pos) ==
    IF Len(src) = 0 THEN Panic(pos)
    ELSE Scan(FirstCrlf(src, pos, Len(src) - 1), pos,
              LAMBDA i : map_or(atoi(SubSeq(src, pos + 1, i)), i + 2), ErrMessage)

\* Mutant: any marker byte is followed to the end of its line.
check_any_marker(src) ==
    Try(get_u8(src, 0),
        LAMBDA m : Try(get_line(src, m.pos), LAMBDA l : Ok(0, l.pos)))

\* Frame::check from cursor position 0.
check(src) ==
    Try(get_u8(src, 0),
        LAMBDA m : IF m.val \in {PLUS, MINUS, STAR}
                   THEN Try(get_line(src, m.pos), LAMBDA l : Ok(0, l.pos))
                   ELSE Err(ErrMessage, m.pos))

\* The arm of Frame::parse shared by the three markers.
Operands(src, pos, Make(_, _)) ==
    Try(get_first_operand(src, pos),
        LAMBDA first :
            Try(get_second_operand(src, first.pos),
                LAMBDA second : Ok(Make(first.val, second.val), second.pos)))

\* Frame::parse from cursor position 0; the last arm is unimplemented!().
parse(src) ==
    Try(get_u8(src, 0),
        LAMBDA m : CASE m.val = PLUS -> Operands(src, m.pos, Addition)
                     [] m.val = MINUS -> Operands(src, m.pos, Subtraction)
                     [] m.val = STAR -> Operands(src, m.pos, Multiplication)
                     [] OTHER -> Panic(m.pos))

(***************************************************************************)
(* connection.rs                                                           *)
(***************************************************************************)
NoFrame == [type |-> "-"]

\* crate::Result<Option<Frame>>, plus the outcomes "Panic" (the call unwound)
\* and "-" (no call has returned yet).
RetSome(f) == [tag |-> "Some", frame |-> f, err |-> ""]

RetNone == [tag |-> "None", frame |-> NoFrame, err |-> ""]

RetErr(e) == [tag |-> "Err", frame |-> NoFrame, err |-> e]

RetPanic == [tag |-> "Panic", frame |-> NoFrame, err |-> ""]

NoRet == [tag |-> "-", frame |-> NoFrame, err |-> ""]

\* Mutant: the decoded bytes are not discarded.
advance_nothing(buffer, len) == buffer

\* Mutant: the whole buffer is discarded with the decoded frame.
advance_all(buffer, len) == <<>>

\* BytesMut::advance
advance(buffer, len) == SubSeq(buffer, len + 1, Len(buffer))

\* parse_frame, lines 56-71: check left the cursor at len.
Checked(buffer, len, frame) ==
    CASE frame.tag = "Ok" ->
            [buffer |-> advance(buffer, len), ret |-> RetSome(frame.val)]
      [] frame.tag = "Err" -> [buffer |-> buffer, ret |-> RetErr(frame.err)]
      [] OTHER -> [buffer |-> buffer, ret |-> RetPanic]

\* Mutant: Frame::parse is called whatever check returned.
MatchCheck_unchecked(buffer, c) == Checked(buffer, c.pos, parse(buffer))

\* parse_frame, lines 50-76: the match on what check returned.
MatchCheck(buffer, c) ==
    CASE c.tag = "Ok" -> Checked(buffer, c.pos, parse(buffer))
      [] c.tag = "Err" /\ c.err = Incomplete -> [buffer |-> buffer, ret |-> RetNone]
      [] c.tag = "Err" -> [buffer |-> buffer, ret |-> RetErr(c.err)]
      [] OTHER -> [buffer |-> buffer, ret |-> RetPanic]

\* Connection::parse_frame: the buffer it leaves and the value it returns.
parse_frame(buffer) == MatchCheck(buffer, check(buffer))

\* Mutant: the digits come out least significant first.
RECURSIVE FormatU64_reversed(_)
FormatU64_reversed(n) ==
    IF n < 10 THEN <<ZERO + n>>
    ELSE <<ZERO + (n % 10)>> \o FormatU64_reversed(n \div 10)

\* format!("{}", n) of a u64: decimal, no sign, no leading zero.
RECURSIVE FormatU64(_)
FormatU64(n) ==
    IF n < 10 THEN <<ZERO + n>> ELSE FormatU64(n \div 10) \o <<ZERO + (n % 10)>>

\* write_u64: n bytes, most significant first.
RECURSIVE BigEndian(_, _)
BigEndian(v, n) ==
    IF n = 0 THEN <<>> ELSE BigEndian(v \div 256, n - 1) \o <<v % 256>>

FormatOperands(x, y) == FormatU64(x) \o <<COLON>> \o FormatU64(y) \o <<CR, LF>>

\* Connection::write_frame: the bytes a successful call puts on the stream.
write_frame(frame) ==
    CASE frame.type = "Addition" -> <<PLUS>> \o FormatOperands(frame.x, frame.y)
      [] frame.type = "Subtraction" -> <<MINUS>> \o FormatOperands(frame.x, frame.y)
      [] frame.type = "Multiplication" -> <<STAR>> \o FormatOperands(frame.x, frame.y)
      [] frame.type = "OpResult" -> <<EQUALS>> \o BigEndian(frame.r, 8)

(***************************************************************************)
(* State.                                                                  *)
(*                                                                         *)
(* One Connection under test (SpecConn): a peer puts bytes on the stream,  *)
(* read_frame's loop alternates parse_frame and read_buf.                  *)
(*   cpc      where read_frame is: "idle" (constructed, peer has not yet   *)
(*            written), "parse", "read" (awaiting read_buf), "done"        *)
(*   sent     what the peer wrote: a frame through write_frame, or raw     *)
(*   wire     bytes written by the peer and not yet read                   *)
(*   closed   the peer has shut its side down                              *)
(*   buffer   Connection.buffer                                            *)
(*   prev     the buffer as the last parse_frame call found it             *)
(*   parsed   what the last parse_frame call returned                      *)
(*   ret      what the last read_frame call returned                       *)
(*   frames   the frames read_frame has returned, in order                 *)
(*                                                                         *)
(* The server (Spec): the Listener's loop and the Handler tasks.           *)
(*   lpc      where Listener::run is: "acquire", "accept", "sleep",        *)
(*            "returned"                                                   *)
(*   backoff  accept's local                                               *)
(*   sleeps   the sleeps of the accept call in progress, in order          *)
(*   permits  permits available in limit_connections                       *)
(*   lheld    permits owned by Listener::run's local `permit`              *)
(*   hs       the Handler tasks, by order of accept                        *)
(***************************************************************************)
VARIABLES cpc, sent, wire, closed, buffer, prev, parsed, ret, frames,
          lpc, backoff, sleeps, permits, lheld, hs

cvars == <<cpc, sent, wire, closed, buffer, prev, parsed, ret, frames>>

svars == <<lpc, backoff, sleeps, permits, lheld, hs>>

vars == <<cvars, svars>>

(***************************************************************************)
(* What the peer of the Connection under test may write.                   *)
(***************************************************************************)
D(n) == ZERO + n

ArithFrames ==
    {Addition(a, b) : a \in U64, b \in U64}
        \cup {Subtraction(a, b) : a \in U64, b \in U64}
        \cup {Multiplication(a, b) : a \in U64, b \in U64}

ResultFrames == {OpResult(v) : v \in U64}

\* Operand fields: empty, digits, digits then a letter, a letter.
Fields == {<<>>, <<D(1), D(2)>>, <<D(1), D(2), LETTER_A>>, <<LETTER_A>>}

Separators == {<<COLON>>, <<>>}

\* What follows the first frame in the stream: nothing, a stray tail, a
\* second, pipelined request.
Trailers ==
    {<<>>, <<COLON, D(2), CR, LF>>, <<PLUS, D(1), COLON, D(2), CR, LF>>}

\* A marker, two fields, CR LF, and what follows.
ArithLike ==
    {<<m>> \o f1 \o s \o f2 \o <<CR, LF>> \o tr :
        m \in {PLUS, MINUS, STAR}, f1 \in Fields, s \in Separators,
        f2 \in Fields, tr \in Trailers}

\* Operands at and beyond the largest u64: the largest, one more, and the
\* largest with a digit appended.
Large == {FormatU64(U64_MAX), FormatU64(U64_MAX + 1), FormatU64(U64_MAX) \o <<ZERO>>}

Overflowing ==
    {<<PLUS>> \o f1 \o <<COLON>> \o f2 \o <<CR, LF>> : f1 \in Large, f2 \in Large}

\* A request the peer stops in the middle of.
Truncated == {<<m>> \o f : m \in {PLUS, MINUS, STAR}, f \in Fields}

BadMarkers == {LETTER_A, COLON, CR, LF, D(1), Other.nul, Other.high}

BadMarked ==
    {<<m>> \o tl : m \in BadMarkers,
        tl \in {<<>>, <<CR, LF>>, <<D(1), COLON, D(2), CR, LF>>}}

RawInputs == ArithLike \cup Overflowing \cup Truncated \cup BadMarked

SentFrame(f) == [kind |-> "frame", frame |-> f, bytes |-> write_frame(f)]

SentRaw(b) == [kind |-> "raw", frame |-> NoFrame, bytes |-> b]

NotSent == [kind |-> "-", frame |-> NoFrame, bytes |-> <<>>]

(***************************************************************************)
(* SpecConn: the Connection under test.                                    *)
(***************************************************************************)
\* After Connection::new; the Listener is not running in SpecConn.
InitConn ==
    /\ cpc = "idle"
    /\ sent = NotSent
    /\ wire = <<>>
    /\ closed = FALSE
    /\ buffer = <<>>
    /\ prev = <<>>
    /\ parsed = NoRet
    /\ ret = NoRet
    /\ frames = <<>>
    /\ lpc = "returned"
    /\ backoff = 1
    /\ sleeps = <<>>
    /\ permits = 0
    /\ lheld = 0
    /\ hs = <<>>

\* The peer encodes one frame with write_frame and flushes it.
PeerWriteFrame ==
    /\ cpc = "idle"
    /\ \E f \in ArithFrames \cup ResultFrames :
          /\ sent' = SentFrame(f)
          /\ wire' = write_frame(f)
    /\ cpc' = "parse"
    /\ UNCHANGED <<closed, buffer, prev, parsed, ret, frames>>
    /\ UNCHANGED svars

\* The peer writes bytes of its own making.
PeerWriteRaw ==
    /\ cpc = "idle"
    /\ \E b \in RawInputs :
          /\ sent' = SentRaw(b)
          /\ wire' = b
    /\ cpc' = "parse"
    /\ UNCHANGED <<closed, buffer, prev, parsed, ret, frames>>
    /\ UNCHANGED svars

\* The peer shuts down after its last byte was read.
PeerClose ==
    /\ cpc = "read"
    /\ wire = <<>>
    /\ ~closed
    /\ closed' = TRUE
    /\ UNCHANGED <<cpc, sent, wire, buffer, prev, parsed, ret, frames>>
    /\ UNCHANGED svars

\* read_frame, line 81: parse_frame()?, and the return of a frame.
ParseFrame ==
    /\ cpc = "parse"
    /\ \E r \in {parse_frame(buffer)} :
           /\ prev' = buffer
           /\ buffer' = r.buffer
           /\ parsed' = r.ret
           /\ IF r.ret.tag = "None"
              THEN /\ cpc' = "read"
                   /\ UNCHANGED <<ret, frames>>
              ELSE /\ cpc' = "done"
                   /\ ret' = r.ret
                   /\ frames' = IF r.ret.tag = "Some"
                                THEN Append(frames, r.ret.frame)
                                ELSE frames
    /\ UNCHANGED <<sent, wire, closed>>
    /\ UNCHANGED svars

\* read_frame, lines 89-93: read_buf delivers n >= 1 bytes.
ReadBuf ==
    /\ cpc = "read"
    /\ \E n \in 1 .. Len(wire) :
          /\ buffer' = buffer \o SubSeq(wire, 1, n)
          /\ wire' = SubSeq(wire, n + 1, Len(wire))
    /\ cpc' = "parse"
    /\ UNCHANGED <<sent, closed, prev, parsed, ret, frames>>
    /\ UNCHANGED svars

\* Mutant: every end of stream is taken for a clean shutdown.
ReadEof_always_clean ==
    /\ cpc = "read"
    /\ wire = <<>>
    /\ closed
    /\ ret' = RetNone
    /\ cpc' = "done"
    /\ UNCHANGED <<sent, wire, closed, buffer, prev, parsed, frames>>
    /\ UNCHANGED svars

\* read_frame, lines 89-102: read_buf returns 0, the peer has closed.
ReadEof ==
    /\ cpc = "read"
    /\ wire = <<>>
    /\ closed
    /\ ret' = IF buffer = <<>> THEN RetNone ELSE RetErr("connection reset by peer")
    /\ cpc' = "done"
    /\ UNCHANGED <<sent, wire, closed, buffer, prev, parsed, frames>>
    /\ UNCHANGED svars

\* read_frame, line 93: read_buf fails.
ReadFail ==
    /\ cpc = "read"
    /\ ret' = RetErr("failed to read from socket")
    /\ cpc' = "done"
    /\ UNCHANGED <<sent, wire, closed, buffer, prev, parsed, frames>>
    /\ UNCHANGED svars

\* The owner of the Connection calls read_frame again after a frame.
ReadFrameAgain ==
    /\ cpc = "done"
    /\ ret.tag = "Some"
    /\ cpc' = "parse"
    /\ UNCHANGED <<sent, wire, closed, buffer, prev, parsed, ret, frames>>
    /\ UNCHANGED svars

NextConn ==
    \/ PeerWriteFrame
    \/ PeerWriteRaw
    \/ PeerClose
    \/ ParseFrame
    \/ ReadBuf
    \/ ReadEof
    \/ ReadFail
    \/ ReadFrameAgain

SpecConn == InitConn /\ [][NextConn]_vars

(***************************************************************************)
(* server.rs                                                               *)
(***************************************************************************)
\* u64 arithmetic: with overflow checks a result out of range panics (None),
\* without them it wraps.
Wrap(overflow_checks, n) ==
    IF n >= 0 /\ n <= U64_MAX THEN Some(n)
    ELSE IF overflow_checks THEN None
    ELSE Some(n % (U64_MAX + 1))

\* Handler::handle_frame, lines 41-47: the response frame, None on a panic.
op_result(frame, overflow_checks) ==
    CASE frame.type = "Addition" -> Wrap(overflow_checks, frame.x + frame.y)
      [] frame.type = "Subtraction" -> Wrap(overflow_checks, frame.x - frame.y)
      [] frame.type = "Multiplication" -> Wrap(overflow_checks, frame.x * frame.y)
      [] frame.type = "OpResult" -> Some(frame.r)

\* Mutant: the permit is handed out without being taken from the pool.
acquire_owned_free(available) == available

\* Semaphore::acquire_owned and the drop of an OwnedSemaphorePermit.
acquire_owned(available) == available - 1

\* Mutant: a dropped permit does not come back to the pool.
drop_permit_leak(available) == available

drop_permit(available) == available + 1

\* What the peer of an accepted socket does: the chunks its read_buf calls
\* deliver, then either a shutdown or silence.
Scripts ==
    {[chunks |-> << <<MINUS, D(1), COLON>>, <<D(2), CR, LF>> >>, close |-> FALSE],
     [chunks |-> << <<LETTER_A>> >>, close |-> FALSE],
     [chunks |-> << <<PLUS, D(1)>> >>, close |-> TRUE],
     [chunks |-> <<>>, close |-> TRUE],
     [chunks |-> <<>>, close |-> FALSE]}

\* A Handler task: where it is ("read": awaiting read_buf, "write": awaiting
\* the flush of its response, "done": the task has ended), its peer, its
\* Connection's buffer, the permits its task owns, the frame read_frame
\* returned to it, the response it computed, how it ended, and the frames it
\* wrote.
Unspawned ==
    [pc |-> "none", chunks |-> <<>>, close |-> FALSE, buffer |-> <<>>,
     permit |-> 0, request |-> NoFrame, response |-> NoFrame, outcome |-> "-",
     written |-> <<>>]

Spawned(script) ==
    [pc |-> "read", chunks |-> script.chunks, close |-> script.close,
     buffer |-> <<>>, permit |-> 1, request |-> NoFrame, response |-> NoFrame,
     outcome |-> "-", written |-> <<>>]

\* The task ends: line 92, or the unwinding of a panic, drops its permit, and
\* its Handler, with the Connection and its buffer, is dropped.
Finished(h, how) ==
    [h EXCEPT !.pc = "done", !.permit = 0, !.outcome = how, !.chunks = <<>>,
              !.close = FALSE, !.buffer = <<>>]

Handlers == 1 .. MaxAccepts

Running == {i \in Handlers : hs[i].pc \in {"read", "write"}}

NumSpawned == Cardinality({i \in Handlers : hs[i].pc # "none"})

RECURSIVE SumPermits(_)
SumPermits(n) == IF n = 0 THEN 0 ELSE hs[n].permit + SumPermits(n - 1)

\* After server::run has built the Listener; no Connection is under test.
Init ==
    /\ lpc = "acquire"
    /\ backoff = 1
    /\ sleeps = <<>>
    /\ permits = MAX_CONNECTIONS
    /\ lheld = 0
    /\ hs = [i \in Handlers |-> Unspawned]
    /\ cpc = "idle"
    /\ sent = NotSent
    /\ wire = <<>>
    /\ closed = FALSE
    /\ buffer = <<>>
    /\ prev = <<>>
    /\ parsed = NoRet
    /\ ret = NoRet
    /\ frames = <<>>

\* Mutant: accept is entered whether or not a permit was available.
Acquire_try ==
    /\ lpc = "acquire"
    /\ permits' = (IF permits > 0 THEN permits - 1 ELSE permits)
    /\ lheld' = (IF permits > 0 THEN lheld + 1 ELSE lheld)
    /\ backoff' = 1
    /\ sleeps' = <<>>
    /\ lpc' = "accept"
    /\ UNCHANGED hs
    /\ UNCHANGED cvars

\* Mutant: backoff outlives the accept call, as a field of the Listener would.
Acquire_keep_backoff ==
    /\ lpc = "acquire"
    /\ permits > 0
    /\ permits' = acquire_owned(permits)
    /\ lheld' = lheld + 1
    /\ sleeps' = <<>>
    /\ lpc' = "accept"
    /\ UNCHANGED <<backoff, hs>>
    /\ UNCHANGED cvars

\* Listener::run, lines 74-81: a permit is acquired, accept is entered.
Acquire ==
    /\ lpc = "acquire"
    /\ permits > 0
    /\ permits' = acquire_owned(permits)
    /\ lheld' = lheld + 1
    /\ backoff' = 1
    /\ sleeps' = <<>>
    /\ lpc' = "accept"
    /\ UNCHANGED hs
    /\ UNCHANGED cvars

\* Listener::accept, line 102, and Listener::run, lines 83-93: the socket is
\* accepted and its Handler spawned with the permit; the task runs to its
\* first read_buf (parse_frame finds the empty buffer Incomplete).
AcceptOk ==
    /\ lpc = "accept"
    /\ NumSpawned < MaxAccepts
    /\ \E script \in Scripts :
          hs' = [hs EXCEPT ![NumSpawned + 1] = Spawned(script)]
    /\ lheld' = lheld - 1
    /\ lpc' = "acquire"
    /\ UNCHANGED <<backoff, sleeps, permits>>
    /\ UNCHANGED cvars

\* Mutant: the limit itself is already fatal.
exhausted_at_limit(b) == b >= BACKOFF_LIMIT

\* Listener::accept, line 104: the failure is fatal.
exhausted(b) == b > BACKOFF_LIMIT

\* Listener::accept, lines 103-110: accept fails; past the limit the error is
\* returned, Listener::run returns it and drops its permit; otherwise the
\* call sleeps for backoff seconds.
AcceptErr ==
    /\ lpc = "accept"
    /\ IF exhausted(backoff)
       THEN /\ lpc' = "returned"
            /\ permits' = drop_permit(permits)
            /\ lheld' = lheld - 1
            /\ UNCHANGED sleeps
       ELSE /\ lpc' = "sleep"
            /\ sleeps' = Append(sleeps, backoff)
            /\ UNCHANGED <<permits, lheld>>
    /\ UNCHANGED <<backoff, hs>>
    /\ UNCHANGED cvars

\* Listener::accept, lines 110-112: the sleep ends, backoff doubles.
Wake ==
    /\ lpc = "sleep"
    /\ backoff' = backoff * 2
    /\ lpc' = "accept"
    /\ UNCHANGED <<sleeps, permits, lheld, hs>>
    /\ UNCHANGED cvars

\* Handler::run, lines 31-37, on the frame read_frame returned: handle_frame
\* computes the response and awaits its write, or panics.
Handle(h, result) ==
    IF result.some
    THEN [h EXCEPT !.pc = "write", !.response = OpResult(result.v)]
    ELSE Finished(h, "panic")

\* Handler::run, lines 22-37, on what parse_frame returned after a read_buf:
\* read_frame loops, returns the frame, or returns the error, which is
\* printed and ends the task with Ok(()).
AfterParse(h, r, overflow_checks) ==
    CASE r.ret.tag = "None" -> [h EXCEPT !.buffer = r.buffer]
      [] r.ret.tag = "Some" ->
            Handle([h EXCEPT !.buffer = r.buffer, !.request = r.ret.frame],
                   op_result(r.ret.frame, overflow_checks))
      [] r.ret.tag = "Err" -> Finished([h EXCEPT !.buffer = r.buffer], r.ret.err)
      [] OTHER -> Finished([h EXCEPT !.buffer = r.buffer], "panic")

\* Mutant: the permit is dropped on the successful path only.
Release_on_ok(available, before, after) ==
    IF before.pc # "done" /\ after.pc = "done" /\ after.outcome = "ok"
    THEN available + 1
    ELSE available

\* The pool after a step of a task: its permit is dropped when it ends.
Release(available, before, after) ==
    IF before.pc # "done" /\ after.pc = "done"
    THEN drop_permit(available)
    ELSE available

\* Mutant: a task that ends in a failure takes Listener::run down with it.
Step_propagating(i, after) ==
    /\ hs' = [hs EXCEPT ![i] = after]
    /\ permits' = Release(permits, hs[i], after)
    /\ lpc' = (IF after.outcome \in {"-", "ok"} THEN lpc ELSE "returned")
    /\ UNCHANGED <<backoff, sleeps, lheld>>
    /\ UNCHANGED cvars

\* A step of task i: nothing but the task and the pool changes.
Step(i, after) ==
    /\ hs' = [hs EXCEPT ![i] = after]
    /\ permits' = Release(permits, hs[i], after)
    /\ UNCHANGED <<lpc, backoff, sleeps, lheld>>
    /\ UNCHANGED cvars

\* read_buf delivers the peer's next chunk and parse_frame runs on the buffer.
HandlerRead(i) ==
    /\ hs[i].pc = "read"
    /\ hs[i].chunks # <<>>
    /\ \E r \in {parse_frame(hs[i].buffer \o Head(hs[i].chunks))},
          overflow_checks \in BOOLEAN :
          Step(i, AfterParse([hs[i] EXCEPT !.chunks = Tail(@)], r,
                             overflow_checks))

\* read_buf returns 0: the peer has shut down (connection.rs, lines 89-102).
HandlerEof(i) ==
    /\ hs[i].pc = "read"
    /\ hs[i].chunks = <<>>
    /\ hs[i].close
    /\ Step(i, Finished(hs[i], IF hs[i].buffer = <<>>
                               THEN "no frame"
                               ELSE "connection reset by peer"))

\* read_buf fails (connection.rs, line 93).
HandlerReadFail(i) ==
    /\ hs[i].pc = "read"
    /\ Step(i, Finished(hs[i], "failed to read from socket"))

\* write_frame and its flush succeed or fail (server.rs, line 49).
HandlerWrite(i) ==
    /\ hs[i].pc = "write"
    /\ \E ok \in BOOLEAN :
          Step(i, IF ok
                  THEN Finished([hs[i] EXCEPT
                                    !.written = Append(@, hs[i].response)], "ok")
                  ELSE Finished(hs[i], "write error"))

Next ==
    \/ Acquire
    \/ AcceptOk
    \/ AcceptErr
    \/ Wake
    \/ \E i \in Handlers : HandlerRead(i)
    \/ \E i \in Handlers : HandlerEof(i)
    \/ \E i \in Handlers : HandlerReadFail(i)
    \/ \E i \in Handlers : HandlerWrite(i)

Spec == Init /\ [][Next]_vars

\* What the runtime guarantees to the Listener's task: a permit that stays
\* available is handed to the waiting acquire_owned, and a sleep ends.
\* Whether a connection arrives for accept, and whether a Handler's peer
\* sends, closes or fails, is the environment's affair: no fairness.
Fairness == WF_vars(Acquire) /\ WF_vars(Wake)

SpecLive == Init /\ [][Next]_vars /\ Fairness

(***************************************************************************)
(* Properties of the server (Spec).                                        *)
(***************************************************************************)

\* C1: the Handlers spawned and not yet finished never outnumber the permit
\* pool, whatever the interleaving of accepts, Handler steps and completions.
C1_RunningWithinCapacity == Cardinality(Running) <= MAX_CONNECTIONS

\* The pool is exhausted by running Handlers while a connection still waits.
C1_Witness ==
    /\ Cardinality(Running) = MAX_CONNECTIONS
    /\ permits = 0
    /\ NumSpawned < MaxAccepts

\* C2: permits are conserved: those available, the one Listener::run owns and
\* those owned by Handler tasks add up to the capacity; a task owns its permit
\* exactly while it is unfinished, and the Listener owns one exactly while it
\* is inside accept.  So every permit acquired is released once, on every way
\* a Handler or the Listener ends, and none while its Handler runs.
C2_PermitsConserved ==
    /\ permits + lheld + SumPermits(MaxAccepts) = MAX_CONNECTIONS
    /\ permits >= 0
    /\ lheld = (IF lpc \in {"accept", "sleep"} THEN 1 ELSE 0)
    /\ \A i \in Handlers :
          hs[i].permit = (IF hs[i].pc \in {"read", "write"} THEN 1 ELSE 0)

\* accept has failed for good, one Handler ended on a failed write, one on a
\* failed or closed read, and every permit is back in the pool.
C2_Witness ==
    /\ lpc = "returned"
    /\ \E i \in Handlers : hs[i].outcome = "write error"
    /\ \E i \in Handlers :
          hs[i].outcome \in {"connection reset by peer", "no frame",
                             "failed to read from socket", ErrMessage}
    /\ Running = {}
    /\ permits = MAX_CONNECTIONS

\* C3: the Listener is inside accept only while it owns a permit, and so only
\* while fewer Handlers than the capacity are outstanding: with the pool
\* exhausted it waits in acquire and accepts nothing until a Handler finishes.
C3_AcceptOnlyWithPermit ==
    /\ lpc \in {"accept", "sleep"} =>
          lheld = 1 /\ Cardinality(Running) < MAX_CONNECTIONS
    /\ Cardinality(Running) = MAX_CONNECTIONS => lpc \in {"acquire", "returned"}
    /\ NumSpawned > MAX_CONNECTIONS => \E i \in Handlers : hs[i].pc = "done"

\* The connection beyond the capacity was accepted, after a Handler finished.
C3_Witness ==
    /\ NumSpawned = MAX_CONNECTIONS + 1
    /\ Cardinality(Running) = MAX_CONNECTIONS

PowerOfTwo(k) == 2 ^ k

\* C4: within one call of accept the sleeps are 1, 2, 4, 8, 16, 32, 64, one
\* after each of the first seven failures; the eighth failure sleeps no more
\* and is returned out of Listener::run; no sleep exceeds 64.
C4_BackoffSchedule ==
    /\ Len(sleeps) <= 7
    /\ \A k \in 1 .. Len(sleeps) : sleeps[k] = PowerOfTwo(k - 1)
    /\ lpc = "accept" => backoff = PowerOfTwo(Len(sleeps))
    /\ lpc = "sleep" => Len(sleeps) >= 1 /\ backoff = sleeps[Len(sleeps)]
    /\ lpc = "returned" => sleeps = <<1, 2, 4, 8, 16, 32, 64>> /\ backoff = 128

\* The eighth failure in a row has ended Listener::run.
C4_Witness == lpc = "returned" /\ Len(sleeps) = 7

(***************************************************************************)
(* Properties of the Connection under test (SpecConn).                     *)
(***************************************************************************)
ArithMarkers == {PLUS, MINUS, STAR}

SentArith == sent.kind = "frame" /\ sent.frame.type # "OpResult"

SentResult == sent.kind = "frame" /\ sent.frame.type = "OpResult"

\* parse_frame has been called.
Parsed == parsed.tag # "-"

\* The wire format, read off a byte string s independently of the decoder:
\* where CR LF stands after the marker, the payload between the marker and
\* the first CR LF, and the payload's fields on either side of its first ':'.
CrlfPositions(s) == {i \in 2 .. Len(s) - 1 : s[i] = CR /\ s[i + 1] = LF}

CompleteArith(s) ==
    Len(s) >= 3 /\ s[1] \in ArithMarkers /\ CrlfPositions(s) # {}

Payload(s) == SubSeq(s, 2, Min(CrlfPositions(s)) - 1)

Colons(p) == {i \in 1 .. Len(p) : p[i] = COLON}

Field1(p) == SubSeq(p, 1, Min(Colons(p)) - 1)

Field2(p) == SubSeq(p, Min(Colons(p)) + 1, Len(p))

AllDigits(f) == \A i \in 1 .. Len(f) : f[i] >= ZERO /\ f[i] <= NINE

\* C5: round trip.  For every arithmetic frame of u64 operands, parse_frame
\* over exactly the bytes write_frame emitted for it returns that frame, the
\* same variant with the same operands, and consumes exactly those bytes.
C5_RoundTrip ==
    SentArith /\ prev = sent.bytes =>
        parsed = RetSome(sent.frame) /\ buffer = <<>>

\* A frame with a two-digit operand and a zero operand has made the trip.
C5_Witness ==
    /\ SentArith
    /\ sent.frame = Multiplication(U64_MAX, 0)
    /\ prev = sent.bytes
    /\ parsed.tag = "Some"

\* C6: incremental parsing of one arithmetic frame, whatever the sizes of the
\* reads, a byte at a time included: parse_frame over a strict prefix of the
\* frame's bytes returns Ok(None) and leaves the buffer holding every byte
\* read; over the complete bytes it returns the frame; the frame is returned
\* once and the buffer is empty from then on.
C6_Incremental ==
    SentArith =>
        /\ parsed.tag \in {"-", "None", "Some"}
        /\ Parsed /\ Len(prev) < Len(sent.bytes) => parsed = RetNone
        /\ prev = sent.bytes => parsed = RetSome(sent.frame)
        /\ frames = <<>> =>
              buffer = SubSeq(sent.bytes, 1, Len(sent.bytes) - Len(wire))
        /\ frames # <<>> => frames = <<sent.frame>> /\ buffer = <<>> /\ wire = <<>>

\* Everything but the final LF is buffered and was found Incomplete.
C6_Witness ==
    /\ SentArith
    /\ sent.frame = Addition(U64_MAX, 10)
    /\ parsed = RetNone
    /\ prev = SubSeq(sent.bytes, 1, Len(sent.bytes) - 1)
    /\ buffer = prev

\* C7: the decoder recognizes '=': parse_frame over the 9 bytes write_frame
\* emits for OpResult(v) returns OpResult(v), and over '=' with fewer than 8
\* payload bytes it returns Ok(None).  The code does not do this.
C7_ResultDecodes ==
    SentResult /\ Parsed =>
        IF prev = sent.bytes THEN parsed = RetSome(sent.frame) ELSE parsed = RetNone

\* C8: in a complete arithmetic frame, a Frame is decoded only when both
\* operand fields are decimal digits throughout; any other byte in a field
\* makes the frame Malformed.  The code does not do this.
C8_NonDigitOperandRejected ==
    /\ Parsed
    /\ CompleteArith(prev)
    /\ Colons(Payload(prev)) # {}
    /\ ~(AllDigits(Field1(Payload(prev))) /\ AllDigits(Field2(Payload(prev))))
    => parsed.tag = "Err"

\* C9: a complete arithmetic frame whose payload holds no ':' is rejected
\* with an error, whatever follows its CR LF.  The code does not do this.
C9_NoSeparatorRejected ==
    Parsed /\ CompleteArith(prev) /\ Colons(Payload(prev)) = {}
        => parsed.tag = "Err"

\* C10: when the first byte of the buffer is none of + - * =, parse_frame
\* returns the Malformed error at once, whatever bytes follow, read_frame
\* returns it, and the buffer is left as it was.
C10_BadMarkerMalformed ==
    Parsed /\ prev # <<>> /\ prev[1] \notin (ArithMarkers \cup {EQUALS}) =>
        /\ parsed = RetErr(ErrMessage)
        /\ buffer = prev
        /\ cpc = "done"
        /\ ret = parsed

\* A letter where the marker should be, a complete request after it.
C10_Witness ==
    /\ Parsed
    /\ prev = <<LETTER_A, D(1), COLON, D(2), CR, LF>>
    /\ parsed.tag = "Err"

\* C11: when read_buf returns 0, read_frame returns Ok(None) if the buffer is
\* empty and the error "connection reset by peer" if it holds bytes; the two
\* results differ and neither carries a frame.  (read_frame ends after a
\* parse_frame that returned Ok(None) only through a read: one that failed,
\* or one that returned 0.)
C11_EndOfStream ==
    /\ cpc = "done" /\ parsed = RetNone /\ ret.err # "failed to read from socket"
          => /\ closed
             /\ wire = <<>>
             /\ ret = (IF buffer = <<>> THEN RetNone
                       ELSE RetErr("connection reset by peer"))
             /\ ret.frame = NoFrame
             /\ buffer = prev
    /\ ret = RetNone => cpc = "done" /\ closed /\ buffer = <<>>
    /\ ret.err = "connection reset by peer" =>
          cpc = "done" /\ closed /\ buffer # <<>> /\ ret.tag = "Err"
    /\ RetNone # RetErr("connection reset by peer")

\* The peer closed in the middle of a request: the buffer holds its start.
C11_Witness ==
    /\ cpc = "done"
    /\ closed
    /\ buffer = <<PLUS, D(1), D(2)>>
    /\ ret = RetErr("connection reset by peer")

\* The peer closed after a whole request was read and returned.
C11_WitnessClean ==
    /\ cpc = "done"
    /\ closed
    /\ Len(frames) = 1
    /\ buffer = <<>>
    /\ ret = RetNone

(***************************************************************************)
(* Further properties of the server (Spec).                                *)
(***************************************************************************)
Failures ==
    {ErrMessage, "connection reset by peer", "failed to read from socket",
     "write error"}

\* Task i ends in this step.
Ends(i) == hs[i].pc # "done" /\ hs'[i].pc = "done"

\* C12: a Handler that ends, on a malformed frame, a failed read, a peer
\* reset or a failed write included, ends alone: the step leaves Listener::run
\* where it was, with its backoff and its permit, leaves every other Handler
\* as it was, and returns the task's permit to the pool, so that accepting
\* goes on; and Listener::run has returned only with accept's backoff
\* exhausted.
C12_FailureIsolated ==
    /\ [][\A i \in Handlers :
             Ends(i) =>
                 /\ UNCHANGED <<lpc, backoff, sleeps, lheld>>
                 /\ \A j \in Handlers \ {i} : hs'[j] = hs[j]
                 /\ permits' = permits + 1]_vars
    /\ [](lpc = "returned" => exhausted(backoff) /\ Len(sleeps) = 7)

\* Two Handlers failed, one on a malformed frame and one on a read, and the
\* Listener went on to accept a third connection, whose Handler is running.
C12_Witness ==
    /\ hs[1].outcome = ErrMessage
    /\ hs[2].outcome \in Failures \ {ErrMessage}
    /\ hs[3].pc = "write"
    /\ lpc = "acquire"

\* The arithmetic of the protocol, modulo 2^64 (the width of the model's u64).
Modulo(n) == n % (U64_MAX + 1)

Expected(frame) ==
    CASE frame.type = "Addition" -> OpResult(Modulo(frame.x + frame.y))
      [] frame.type = "Subtraction" -> OpResult(Modulo(frame.x - frame.y))
      [] frame.type = "Multiplication" -> OpResult(Modulo(frame.x * frame.y))

\* Task i has been handed a frame by read_frame.
HasRequest(i) == hs[i].request # NoFrame

\* C13: a Handler that has read a request computes the result modulo 2^64
\* for every operand pair, b > a in a Subtraction included, with no overflow
\* check and no failure, and that is the frame it writes.  The code does not
\* do this in a build with overflow checks.
C13_WrappingResult ==
    \A i \in Handlers :
        HasRequest(i) =>
            /\ hs[i].outcome # "panic"
            /\ hs[i].response = Expected(hs[i].request)
            /\ hs[i].outcome = "ok" => hs[i].written = <<Expected(hs[i].request)>>

\* Task i has called write_frame: it awaits the write, or the write is over.
WriteCalled(i) == hs[i].pc = "write" \/ hs[i].outcome \in {"ok", "write error"}

\* Task i ended on a read_frame that returned no frame.
EndedWithoutFrame(i) ==
    hs[i].outcome \in {"no frame", "connection reset by peer", ErrMessage,
                       "failed to read from socket"}

\* C14: on each connection read_frame is called once and write_frame at most
\* once, after read_frame returned a frame: a Handler whose read ended in a
\* clean shutdown, a reset or a malformed frame writes nothing, and a Handler
\* that read a frame calls write_frame with one OpResult, which is the one
\* frame it writes, and ends.  The code does not do this when handle_frame
\* panics.
C14_OneRequestOneResponse ==
    \A i \in Handlers :
        /\ Len(hs[i].written) <= 1
        /\ HasRequest(i) => hs[i].pc \in {"write", "done"}
        /\ WriteCalled(i) \/ hs[i].written # <<>> => HasRequest(i)
        /\ EndedWithoutFrame(i) => ~HasRequest(i) /\ hs[i].written = <<>>
        /\ HasRequest(i) =>
              /\ WriteCalled(i)
              /\ hs[i].response.type = "OpResult"
              /\ hs[i].outcome = "ok" => hs[i].written = <<hs[i].response>>

(***************************************************************************)
(* Further properties of the Connection under test (SpecConn).             *)
(***************************************************************************)
\* The bytes read_buf has delivered so far.
Received == SubSeq(sent.bytes, 1, Len(sent.bytes) - Len(wire))

\* The buffer is as the last parse_frame call left it.
JustParsed == Parsed /\ cpc \in {"read", "done"}

\* C15: parse_frame changes the buffer only when it returns a frame: then it
\* removes exactly the first L bytes, L being where check left its cursor
\* (past the first CR LF), and keeps the rest in order; when it returns
\* Ok(None) or an error the buffer is as it was.  So the buffer is always
\* the bytes received less a consumed prefix, which is empty until a frame
\* has been decoded.
C15_BufferEffect ==
    /\ JustParsed /\ parsed.tag = "Some" =>
          /\ check(prev).tag = "Ok"
          /\ check(prev).pos = Min(CrlfPositions(prev)) + 1
          /\ buffer = SubSeq(prev, check(prev).pos + 1, Len(prev))
          /\ prev = SubSeq(prev, 1, check(prev).pos) \o buffer
    /\ JustParsed /\ parsed.tag # "Some" => buffer = prev
    /\ \E k \in 0 .. Len(Received) :
          /\ buffer = SubSeq(Received, k + 1, Len(Received))
          /\ k = 0 <=> frames = <<>>

\* A request was decoded and the pipelined request behind it is kept.
C15_Witness ==
    /\ JustParsed
    /\ parsed = RetSome(Addition(12, 12))
    /\ Len(prev) = 14
    /\ buffer = <<PLUS, D(1), COLON, D(2), CR, LF>>

\* Frame::parse ran in the last parse_frame call: check had returned Ok.
ParseInvoked == Parsed /\ check(prev).tag = "Ok"

\* C16: Frame::parse runs only on a buffer check has just accepted from
\* position 0, one that starts with + - * and holds a CR LF; so whatever the
\* buffer, no parse_frame call unwinds (unimplemented!(), len() - 1 of an
\* empty buffer), none returns the Incomplete error, and parse itself ends
\* in a frame or in the Malformed error.
C16_ParseAfterCheck ==
    /\ parsed.tag \in {"-", "None", "Some", "Err"}
    /\ parsed.err # Incomplete
    /\ ret.tag # "Panic" /\ ret.err # Incomplete
    /\ parsed.tag = "Some" => ParseInvoked
    /\ ParseInvoked =>
          /\ Len(prev) >= 3 /\ prev[1] \in ArithMarkers
          /\ parse(prev).tag \in {"Ok", "Err"}
          /\ parse(prev).tag = "Err" => parse(prev).err = ErrMessage
          /\ parsed = (IF parse(prev).tag = "Ok" THEN RetSome(parse(prev).val)
                       ELSE RetErr(ErrMessage))

\* The shortest buffer check accepts, a marker and CR LF: parse ran on it and
\* found it Malformed.
C16_Witness ==
    /\ ParseInvoked
    /\ prev = <<MINUS, CR, LF>>
    /\ parsed = RetErr(ErrMessage)

\* The frame check recognized at the head of s: its first L bytes.
CheckedFrame(s) == SubSeq(s, 1, check(s).pos)

\* C17: check and parse agree on where the frame ends: when check accepts a
\* buffer and leaves its cursor at L, a parse that succeeds leaves its cursor
\* at L, and parse does on the buffer what it does on the first L bytes
\* alone: the bytes behind the first CR LF change neither the operands nor
\* whether a frame is decoded.  The code does not do this.
C17_SameBoundary ==
    ParseInvoked =>
        /\ parse(prev).tag = "Ok" => parse(prev).pos = check(prev).pos
        /\ parse(prev).tag = parse(CheckedFrame(prev)).tag
        /\ parse(prev).val = parse(CheckedFrame(prev)).val

\* The number a field of decimal digits denotes.
RECURSIVE DecimalValue(_)
DecimalValue(f) ==
    IF f = <<>> THEN 0
    ELSE DecimalValue(SubSeq(f, 1, Len(f) - 1)) * 10 + (f[Len(f)] - ZERO)

\* s is a complete arithmetic frame of two decimal fields.
DecimalFrame(s) ==
    /\ CompleteArith(s)
    /\ Colons(Payload(s)) # {}
    /\ Field1(Payload(s)) # <<>> /\ AllDigits(Field1(Payload(s)))
    /\ Field2(Payload(s)) # <<>> /\ AllDigits(Field2(Payload(s)))

Operand1(s) == DecimalValue(Field1(Payload(s)))

Operand2(s) == DecimalValue(Field2(Payload(s)))

\* C18: a complete arithmetic frame one of whose decimal fields denotes more
\* than 2^64 - 1 is rejected with the Malformed error and never decoded,
\* with a wrapped or truncated operand or otherwise; fields up to 2^64 - 1
\* are decoded to their values.
C18_OperandOverflowRejected ==
    Parsed /\ DecimalFrame(prev) =>
        IF Operand1(prev) > U64_MAX \/ Operand2(prev) > U64_MAX
        THEN parsed = RetErr(ErrMessage) /\ frames = <<>>
        ELSE /\ parsed.tag = "Some"
             /\ parsed.frame.x = Operand1(prev)
             /\ parsed.frame.y = Operand2(prev)

\* The second operand is one past the largest u64, the first is the largest.
C18_Witness ==
    /\ Parsed
    /\ prev = <<PLUS>> \o FormatOperands(U64_MAX, U64_MAX + 1)
    /\ parsed = RetErr(ErrMessage)

(***************************************************************************)
(* Liveness of the server (SpecLive).                                      *)
(***************************************************************************)
IsRunning(i) == hs[i].pc \in {"read", "write"}

\* Every spawned Handler eventually finishes: none runs for ever.
AllFinish == \A i \in Handlers : []<>(~IsRunning(i))

\* accept eventually succeeds: while connections are still to come, the
\* Listener is again and again back at acquire, neither inside one accept
\* call for ever nor returned.
AcceptSucceeds == []<>(lpc = "acquire" \/ NumSpawned = MaxAccepts)

\* The Listener waits for a permit, a connection pending.
WaitingForPermit == lpc = "acquire" /\ NumSpawned < MaxAccepts

\* The Listener waits and the pool is empty.
Blocked == lpc = "acquire" /\ permits = 0

\* The peer of task i is connected and silent; the task awaits its read.
Silent(i) == hs[i].pc = "read" /\ hs[i].chunks = <<>> /\ ~hs[i].close

\* C19: admission is live.  With the runtime's weak fairness, if every
\* spawned Handler eventually finishes and accept eventually succeeds, a
\* Listener waiting for a permit gets one (it does not wait for ever: it
\* leaves acquire only into accept) and every pending connection, one after
\* the other up to the last, is accepted and handed to a Handler.
\* Conversely nothing times out: a Listener blocked on the empty pool stays
\* blocked through every step in which no Handler ends, and a Handler whose
\* peer stays connected and silent ends in no step but a failing read.
C19_AdmissionLive ==
    /\ AllFinish /\ AcceptSucceeds =>
          /\ []<>(~WaitingForPermit)
          /\ <>(NumSpawned = MaxAccepts)
    /\ [][Blocked /\ (\A i \in Handlers : ~Ends(i)) => Blocked']_vars
    /\ [][\A i \in Handlers :
             Silent(i) /\ hs'[i] # hs[i] =>
                 hs'[i].outcome = "failed to read from socket"]_vars

\* The pool was exhausted, a Handler finished, and the connection that had
\* to wait is now served while the pool is exhausted again.
C19_Witness ==
    /\ Blocked
    /\ NumSpawned = MaxAccepts
    /\ IsRunning(MaxAccepts)
    /\ \E i \in Handlers : hs[i].pc = "done"

\* The Listener is blocked by Handlers whose peers are all silent.
C19_WitnessBlocked ==
    /\ Blocked
    /\ NumSpawned = MAX_CONNECTIONS
    /\ \A i \in 1 .. MAX_CONNECTIONS : Silent(i)

\* Listener::run calls accept in this step.
AcceptCalled == lpc = "acquire" /\ lpc' = "accept"

\* accept returns a socket in this step.
AcceptReturned == lpc = "accept" /\ lpc' = "acquire"

\* C20: backoff belongs to one accept call.  Every call, the first and each
\* one after a successful accept alike, starts at backoff 1 with no sleep
\* behind it, so its first failure sleeps 1 unit; a successful accept leaves
\* the Listener at acquire, from where only a fresh call follows; and the
\* fatal return takes the seven sleeps of the call it ends, whatever failed
\* in earlier calls.
C20_BackoffPerCall ==
    /\ [][AcceptCalled => backoff' = 1 /\ sleeps' = <<>>]_vars
    /\ [][AcceptReturned => NumSpawned' = NumSpawned + 1]_vars
    /\ [][lpc = "accept" /\ lpc' = "sleep" /\ sleeps = <<>> => sleeps' = <<1>>]_vars
    /\ [][lpc' = "returned" /\ lpc # "returned" =>
             lpc = "accept" /\ sleeps = <<1, 2, 4, 8, 16, 32, 64>>]_vars

\* Every connection was accepted but the last, some after failed attempts or
\* not, and the call in progress has failed once: it sleeps 1 unit.
C20_Witness ==
    /\ NumSpawned = MaxAccepts - 1
    /\ lpc = "sleep"
    /\ sleeps = <<1>>
    /\ backoff = 1

=============================================================================
